---- MODULE Spec2Model ----
(***************************************************************************)
(* Model of the large-events repository: the events service                *)
(* (src/events/app.py) and the users service (src/users/app.py), two Flask *)
(* applications in front of MongoDB collections.  Every request is handled *)
(* by a thread of its own; a handler's steps are its store calls, so that  *)
(* concurrent requests interleave between store calls.                     *)
(***************************************************************************)
EXTENDS Integers, Sequences, FiniteSets, TLC

VARIABLES
    configured,   \* events: app.config['COLLECTION'] is a real collection (TRUE) or the Thrower (FALSE)
    events,       \* events: the documents of eventsDB.all_events, in insertion order
    indexes,      \* events: the indexes of eventsDB.all_events
    clock,        \* events: the server's UTC clock, in ticks
    req,          \* events: the state of every request handler
    acked,        \* events: history, the adds that have returned 201
    users,        \* users: the documents of DB.users
    ureq          \* users: the state of the request handler

vars == <<configured, events, indexes, clock, req, acked, users, ureq>>

---------------------------------------------------------------------------
(* Bounds of the model *)

MaxEvents == 2        \* documents in the events collection
MaxClock == 3         \* last tick of the clock
MaxUsers == 2         \* documents in the users collection

EReqs == {"r1", "r2"} \* concurrent request handlers of the events service

TicksPerSecond == 2   \* clock resolution below timespec='seconds'
Null == 0 - 1         \* JSON null / Python None where a timestamp is expected
ClientTime == 99      \* a created_at value a client may put in the form

---------------------------------------------------------------------------
(* Values *)

EventFields == {"_id", "name", "description", "author", "event_time", "created_at"}

\* a document that was in the collection before the process started, with a
\* field the data model does not declare
LegacyDoc ==
    [_id |-> 1, name |-> "The Big Party", description |-> "old", author |-> "u0",
     event_time |-> 40, created_at |-> 0, legacy |-> "x"]

Forms ==
    { [event_name |-> "Launch", description |-> "kickoff", author_id |-> "u1",
       event_time |-> 50],
      [event_name |-> "party", description |-> "fun", author_id |-> "u2",
       event_time |-> 51, created_at |-> ClientTime],
      [event_name |-> "Launch", description |-> "kickoff", event_time |-> 50],
      [description |-> "fun", author_id |-> "u2", event_time |-> 51,
       created_at |-> ClientTime] }

SearchArgs == { [name |-> "party"], [name |-> "THE PARTY"], [q |-> "party"] }

\* the <event_id> of the URL: 0 stands for a string that is no 24-digit hex ObjectId
UrlIds == 0 .. MaxEvents

NoParams == [none |-> TRUE]
NoInfo == [none |-> TRUE]
NoBody == [kind |-> "none"]

IdleReq ==
    [pc |-> "idle", route |-> "none", params |-> NoParams, info |-> NoInfo,
     status |-> 0, body |-> NoBody, calls |-> <<>>, seen |-> {}]

TextBody(s) == [kind |-> "text", text |-> s]

DBUndefined == "Events database was undefined."
InternalServerError == "Internal Server Error"

---------------------------------------------------------------------------
(* events/app.py: helpers *)

\* a handle that never raises, as a None stand-in would not
HandleRaisesNever(cfg) == FALSE

\* Thrower.__getattribute__: every attribute access on the handle raises
\* DBNotConnectedError when MONGODB_URI was not set
HandleRaises(cfg) == ~cfg

\* datetime.utcnow().isoformat(sep=' ', timespec='seconds'): the clock cut to whole seconds
IsoFormat(t) == t \div TicksPerSecond

\* Event(**kw).dict: the declared fields of the entity, the others dropped
EventDict(kw) == [f \in (EventFields \cap DOMAIN kw) |-> kw[f]]

\* a variant that does not ask for the author
RequiredFieldsNoAuthor == {"event_name", "description", "event_time"}

\* the four form fields add_event reads with request.form[...]
RequiredFields == {"event_name", "description", "author_id", "event_time"}

FormGet(form, f) == IF f \in DOMAIN form THEN form[f] ELSE "undefined"

FormInfo(form) ==
    [name |-> FormGet(form, "event_name"),
     description |-> FormGet(form, "description"),
     author |-> FormGet(form, "author_id"),
     event_time |-> FormGet(form, "event_time")]

\* a variant that stamps the event with the client's event_time
build_event_info_event_time(info, time) ==
    [f \in DOMAIN info \cup {"created_at"} |->
        IF f = "created_at" THEN info.event_time ELSE info[f]]

\* {**info, 'created_at': time}
build_event_info(info, time) ==
    [f \in DOMAIN info \cup {"created_at"} |->
        IF f = "created_at" THEN time ELSE info[f]]

\* a variant that takes a lookup to have found its one document
build_events_dict_one(cursor) ==
    [events |-> [i \in 1 .. Len(cursor) |-> EventDict(cursor[i])],
     num_events |-> 1]

\* build_events_dict: the list of shaped events and its length
build_events_dict(cursor) ==
    [events |-> [i \in 1 .. Len(cursor) |-> EventDict(cursor[i])],
     num_events |-> Len(cursor)]

\* json.loads(json_util.dumps(d)): an ObjectId becomes {"$oid": ...}, strings
\* and numbers stay
JsonEvent(e) ==
    [f \in DOMAIN e |-> IF f = "_id" THEN [oid |-> e[f]] ELSE e[f]]

JsonBody(d) ==
    [kind |-> "json",
     events |-> [i \in 1 .. Len(d.events) |-> JsonEvent(d.events[i])],
     num_events |-> d.num_events]

---------------------------------------------------------------------------
(* The store: pymongo calls on a collection *)

RECURSIVE SelectSeq2(_, _)
\* the documents of coll whose index is in keep, in order
SelectSeq2(coll, keep) ==
    IF coll = <<>> THEN <<>>
    ELSE LET n == Len(coll)
             front == SelectSeq2(SubSeq(coll, 1, n - 1), keep)
         IN IF n \in keep THEN Append(front, coll[n]) ELSE front

\* a variant that returns the first document only (find_one)
FindFirst(coll) == IF coll = <<>> THEN <<>> ELSE <<coll[1]>>

\* coll.find({})
FindAll(coll) == coll

\* coll.find({'_id': oid})
FindById(coll, oid) == SelectSeq2(coll, {i \in 1 .. Len(coll) : coll[i]._id = oid})

\* a variant that stores the document twice
InsertOneTwice(coll, doc) ==
    LET d1 == [f \in DOMAIN doc \cup {"_id"} |-> IF f = "_id" THEN Len(coll) + 1 ELSE doc[f]]
        d2 == [f \in DOMAIN doc \cup {"_id"} |-> IF f = "_id" THEN Len(coll) + 2 ELSE doc[f]]
    IN Append(Append(coll, d1), d2)

\* coll.insert_one(doc): the driver gives the document a fresh _id
InsertOne(coll, doc) ==
    Append(coll,
           [f \in DOMAIN doc \cup {"_id"} |-> IF f = "_id" THEN Len(coll) + 1 ELSE doc[f]])

TextIndex == "name_text"

\* a variant that ensures nothing
CreateIndexNoop(ix) == ix

\* coll.create_index([('name', 'text')]): creates the index unless it exists
CreateIndex(ix) == ix \cup {TextIndex}

\* MongoDB text search: case-insensitive, stop words dropped, words stemmed
Terms(s) ==
    CASE s = "Launch" -> {"launch"}
      [] s = "The Big Party" -> {"big", "parti"}
      [] s = "party" -> {"parti"}
      [] s = "THE PARTY" -> {"parti"}
      [] OTHER -> {}

\* coll.find({'$text': {'$search': name}})
text_search_event_name(coll, name) ==
    SelectSeq2(coll, {i \in 1 .. Len(coll) : Terms(coll[i].name) \cap Terms(name) # {}})

---------------------------------------------------------------------------
(* events/app.py: the request handlers *)

\* the add requests that may still insert a document
AddsInFlight ==
    Cardinality({r \in EReqs : /\ req[r].route = "add" /\ req[r].pc # "done"
                               /\ RequiredFields \subseteq DOMAIN req[r].params})

Respond(r, status, body) ==
    req' = [req EXCEPT ![r].pc = "done", ![r].status = status, ![r].body = body]

RespondAfter(r, call, status, body) ==
    req' = [req EXCEPT ![r].pc = "done", ![r].status = status, ![r].body = body,
                       ![r].calls = Append(@, call)]

\* a request arrives and Flask dispatches it to its view function
StartRequest(r) ==
    /\ req[r].pc = "idle"
    /\ \E route \in {"get_all", "search", "add", "edit", "get_one"} :
         \E params \in (CASE route = "get_all" -> {NoParams}
                          [] route = "search" -> SearchArgs
                          [] route = "add" -> Forms
                          [] OTHER -> {[event_id |-> i] : i \in UrlIds}) :
            /\ (route = "add" /\ RequiredFields \subseteq DOMAIN params)
                  => Len(events) + AddsInFlight < MaxEvents
            /\ req' = [req EXCEPT ![r] = [IdleReq EXCEPT !.pc = "handler",
                                                          !.route = route,
                                                          !.params = params,
                                                          !.seen = acked]]
    /\ UNCHANGED <<configured, events, indexes, clock, acked, users, ureq>>

\* GET /v1/
get_all_events(r) ==
    /\ req[r].pc = "handler" /\ req[r].route = "get_all"
    /\ IF HandleRaises(configured)
       THEN Respond(r, 500, TextBody(DBUndefined))
       ELSE RespondAfter(r, "find", 200,
                         JsonBody(build_events_dict(FindAll(events))))
    /\ UNCHANGED <<configured, events, indexes, clock, acked, users, ureq>>

\* GET /v1/search, up to create_index
search_event(r) ==
    /\ req[r].pc = "handler" /\ req[r].route = "search"
    /\ IF "name" \notin DOMAIN req[r].params
       THEN /\ Respond(r, 400, TextBody("Event name was entered incorrectly."))
            /\ UNCHANGED indexes
       ELSE IF HandleRaises(configured)
       THEN /\ Respond(r, 500, TextBody(DBUndefined))
            /\ UNCHANGED indexes
       ELSE /\ indexes' = CreateIndex(indexes)
            /\ req' = [req EXCEPT ![r].pc = "find",
                                  ![r].calls = Append(@, "create_index")]
    /\ UNCHANGED <<configured, events, clock, acked, users, ureq>>

\* GET /v1/search, the text search and the response; without a text index
\* the store refuses the query and the error is not caught
search_event_find(r) ==
    /\ req[r].pc = "find" /\ req[r].route = "search"
    /\ IF TextIndex \in indexes
       THEN RespondAfter(r, "find", 200,
                JsonBody(build_events_dict(
                    text_search_event_name(events, req[r].params.name))))
       ELSE RespondAfter(r, "find", 500, TextBody(InternalServerError))
    /\ UNCHANGED <<configured, events, indexes, clock, acked, users, ureq>>

\* POST /v1/add, up to Event(**info)
add_event(r) ==
    /\ req[r].pc = "handler" /\ req[r].route = "add"
    /\ IF ~(RequiredFields \subseteq DOMAIN req[r].params)
       THEN Respond(r, 400, TextBody("Event info was entered incorrectly."))
       ELSE req' = [req EXCEPT ![r].pc = "insert",
                               ![r].info = EventDict(build_event_info(
                                               FormInfo(req[r].params),
                                               IsoFormat(clock)))]
    /\ UNCHANGED <<configured, events, indexes, clock, acked, users, ureq>>

\* POST /v1/add, insert_one and the response
add_event_insert(r) ==
    /\ req[r].pc = "insert" /\ req[r].route = "add"
    /\ IF HandleRaises(configured)
       THEN /\ Respond(r, 500, TextBody(DBUndefined))
            /\ UNCHANGED <<events, acked>>
       ELSE /\ events' = InsertOne(events, req[r].info)
            /\ RespondAfter(r, "insert_one", 201, TextBody("Event added."))
            /\ acked' = acked \cup {[id |-> Len(events) + 1, name |-> req[r].params.event_name]}
    /\ UNCHANGED <<configured, indexes, clock, users, ureq>>

\* PUT /v1/edit/<event_id>: the view returns None, which Flask answers with a 500
edit_event(r) ==
    /\ req[r].pc = "handler" /\ req[r].route = "edit"
    /\ Respond(r, 500, TextBody(InternalServerError))
    /\ UNCHANGED <<configured, events, indexes, clock, acked, users, ureq>>

\* PUT /v1/<event_id>: ObjectId(event_id) raises InvalidId on a malformed id,
\* which is not caught; the documents go through Event twice
get_one_event(r) ==
    /\ req[r].pc = "handler" /\ req[r].route = "get_one"
    /\ IF HandleRaises(configured)
       THEN Respond(r, 500, TextBody(DBUndefined))
       ELSE IF req[r].params.event_id = 0
       THEN Respond(r, 500, TextBody(InternalServerError))
       ELSE LET found == FindById(events, req[r].params.event_id)
                shaped == [i \in 1 .. Len(found) |-> EventDict(found[i])]
            IN RespondAfter(r, "find", 200, JsonBody(build_events_dict(shaped)))
    /\ UNCHANGED <<configured, events, indexes, clock, acked, users, ureq>>

\* the response is sent and the handler is free for the next request
Finish(r) ==
    /\ req[r].pc = "done"
    /\ req' = [req EXCEPT ![r] = IdleReq]
    /\ UNCHANGED <<configured, events, indexes, clock, acked, users, ureq>>

\* time passes
Tick ==
    /\ clock < MaxClock
    /\ clock' = clock + 1
    /\ UNCHANGED <<configured, events, indexes, req, acked, users, ureq>>

EventsStep(r) ==
    \/ StartRequest(r)
    \/ get_all_events(r)
    \/ search_event(r)
    \/ search_event_find(r)
    \/ add_event(r)
    \/ add_event_insert(r)
    \/ edit_event(r)
    \/ get_one_event(r)
    \/ Finish(r)

NextEvents ==
    \/ \E r \in EReqs : EventsStep(r)
    \/ Tick

---------------------------------------------------------------------------
(* users/app.py *)

Usernames == {"alice", "bob"}

UserDocs == [username : Usernames, is_organizer : BOOLEAN]

UserCollections == UNION {[1 .. k -> UserDocs] : k \in 0 .. MaxUsers}

AuthForms == {[user_id |-> u] : u \in Usernames} \cup {[username |-> "alice"]}

IdleUReq ==
    [pc |-> "idle", route |-> "none", params |-> NoParams, cursor |-> <<>>,
     status |-> 0, body |-> NoBody, calls |-> <<>>]

\* DB.users.find({"username": username})
FindByUsername(coll, username) ==
    SelectSeq2(coll, {i \in 1 .. Len(coll) : coll[i].username = username})

\* DB.users.count_documents({"username": username})
CountDocuments(coll, username) == Len(FindByUsername(coll, username))

RECURSIVE AnyOrganizer(_)
\* a loop that returns True at the first organizer
AnyOrganizer(cursor) ==
    IF cursor = <<>> THEN FALSE
    ELSE IF Head(cursor).is_organizer THEN TRUE
    ELSE AnyOrganizer(Tail(cursor))

RECURSIVE AllOrganizersLoop(_)
AllOrganizersLoop(cursor) ==
    IF cursor = <<>> THEN TRUE
    ELSE IF ~Head(cursor).is_organizer THEN FALSE
    ELSE AllOrganizersLoop(Tail(cursor))

\* is_authorized_to_edit, the loop over the cursor: False at the first record
\* that is no organizer, True when the cursor is exhausted
AllOrganizers(cursor) == AllOrganizersLoop(cursor)

URespond(status, body) ==
    ureq' = [ureq EXCEPT !.pc = "done", !.status = status, !.body = body]

\* a request arrives at the users service
UStartRequest ==
    /\ ureq.pc = "idle"
    /\ \E route \in {"authorization", "add_update_user"} :
         \E params \in (IF route = "authorization" THEN AuthForms ELSE {NoParams}) :
            ureq' = [IdleUReq EXCEPT !.pc = "handler", !.route = route,
                                     !.params = params]
    /\ UNCHANGED <<configured, events, indexes, clock, req, acked, users>>

\* a variant that queries the store before looking at the form
get_authorization_count_first ==
    /\ ureq.pc = "handler" /\ ureq.route = "authorization"
    /\ IF "user_id" \notin DOMAIN ureq.params
       THEN ureq' = [ureq EXCEPT !.pc = "done", !.status = 200,
                        !.body = [kind |-> "json", error |->
                                  "You must supply a 'user_id' POST parameter!"],
                        !.calls = Append(@, "count_documents")]
       ELSE IF CountDocuments(users, ureq.params.user_id) = 0
       THEN ureq' = [ureq EXCEPT !.pc = "done", !.status = 200,
                        !.body = [kind |-> "json", edit_access |-> FALSE],
                        !.calls = Append(@, "count_documents")]
       ELSE ureq' = [ureq EXCEPT !.pc = "find",
                        !.calls = Append(@, "count_documents")]
    /\ UNCHANGED <<configured, events, indexes, clock, req, acked, users>>

\* POST /v1/authorization with is_authorized_to_edit up to count_documents
\* (`n is 0` is `n = 0` for CPython's small integers)
get_authorization ==
    /\ ureq.pc = "handler" /\ ureq.route = "authorization"
    /\ IF "user_id" \notin DOMAIN ureq.params
       THEN URespond(200, [kind |-> "json", error |->
                           "You must supply a 'user_id' POST parameter!"])
       ELSE IF CountDocuments(users, ureq.params.user_id) = 0
       THEN ureq' = [ureq EXCEPT !.pc = "done", !.status = 200,
                        !.body = [kind |-> "json", edit_access |-> FALSE],
                        !.calls = Append(@, "count_documents")]
       ELSE ureq' = [ureq EXCEPT !.pc = "find",
                        !.calls = Append(@, "count_documents")]
    /\ UNCHANGED <<configured, events, indexes, clock, req, acked, users>>

\* is_authorized_to_edit from find on, and the response
is_authorized_to_edit_find ==
    /\ ureq.pc = "find" /\ ureq.route = "authorization"
    /\ LET cursor == FindByUsername(users, ureq.params.user_id)
       IN ureq' = [ureq EXCEPT !.pc = "done", !.status = 200, !.cursor = cursor,
                      !.body = [kind |-> "json", edit_access |-> AllOrganizers(cursor)],
                      !.calls = Append(@, "find")]
    /\ UNCHANGED <<configured, events, indexes, clock, req, acked, users>>

\* PUT /v1/: request.getJSON does not exist, the AttributeError is answered
\* with a 500 before anything else happens
add_update_user ==
    /\ ureq.pc = "handler" /\ ureq.route = "add_update_user"
    /\ URespond(500, TextBody(InternalServerError))
    /\ UNCHANGED <<configured, events, indexes, clock, req, acked, users>>

UFinish ==
    /\ ureq.pc = "done"
    /\ ureq' = IdleUReq
    /\ UNCHANGED <<configured, events, indexes, clock, req, acked, users>>

\* another client of the database rewrites the users collection
ExternalWrite ==
    /\ users' \in UserCollections \ {users}
    /\ UNCHANGED <<configured, events, indexes, clock, req, acked, ureq>>

NextUsers ==
    \/ UStartRequest
    \/ get_authorization
    \/ is_authorized_to_edit_find
    \/ add_update_user
    \/ UFinish

---------------------------------------------------------------------------
(* Specifications *)

EventsInit ==
    /\ configured \in BOOLEAN
    /\ events \in {<<>>, <<LegacyDoc>>}
    /\ indexes = {}
    /\ clock = 0
    /\ req = [r \in EReqs |-> IdleReq]
    /\ acked = {}

UsersInit ==
    /\ users \in UserCollections
    /\ ureq = IdleUReq

\* the events service alone, its handlers running concurrently
InitEvents == EventsInit /\ users = <<>> /\ ureq = IdleUReq
SpecEvents == InitEvents /\ [][NextEvents]_vars

\* the users service alone, nobody else writing to its collection
InitUsers ==
    /\ UsersInit
    /\ configured = TRUE /\ events = <<>> /\ indexes = {} /\ clock = 0
    /\ req = [r \in EReqs |-> IdleReq] /\ acked = {}
SpecUsers == InitUsers /\ [][NextUsers]_vars

\* the users service with other writers on its collection
NextUsersExt == NextUsers \/ ExternalWrite
SpecUsersExt == InitUsers /\ [][NextUsersExt]_vars

\* users collections with no record, one record, and two records of one username
SampleCollections ==
    { <<>>,
      <<[username |-> "alice", is_organizer |-> TRUE]>>,
      <<[username |-> "alice", is_organizer |-> TRUE],
        [username |-> "alice", is_organizer |-> FALSE]>> }

\* both services, one request at a time in each
Init == EventsInit /\ users \in SampleCollections /\ ureq = IdleUReq
Next == EventsStep("r1") \/ Tick \/ NextUsers
Spec == Init /\ [][Next]_vars

---------------------------------------------------------------------------
(* Properties *)

StoreRoutes == {"get_all", "search", "add", "get_one"}

Done(r, route) == req[r].pc = "done" /\ req[r].route = route

\* the form fields the interface of POST /v1/add requires
FourFields == {"event_name", "description", "author_id", "event_time"}

\* the request carries the parameters the interface of its route requires
WellFormed(r) ==
    /\ req[r].route = "search" => "name" \in DOMAIN req[r].params
    /\ req[r].route = "add" => FourFields \subseteq DOMAIN req[r].params

\* C1 as stated: with the store handle unconfigured, every request to a
\* store-touching route is answered 500 'Events database was undefined.'
\* and no store call is made.
C1_AlwaysUnavailable ==
    \A r \in EReqs :
        (~configured /\ req[r].pc = "done" /\ req[r].route \in StoreRoutes)
            => /\ req[r].status = 500
               /\ req[r].body = TextBody(DBUndefined)
               /\ req[r].calls = <<>>

\* C1 amended: with the store handle unconfigured no request ever makes a
\* store call; a request that passes the handler's parameter checks is
\* answered 500 'Events database was undefined.', and a search without name
\* or an add without a required field is answered 400.
C1_UnavailableUnlessMalformed ==
    \A r \in EReqs :
        ~configured =>
            /\ req[r].calls = <<>>
            /\ (req[r].pc = "done" /\ req[r].route \in StoreRoutes) =>
                  IF WellFormed(r)
                  THEN req[r].status = 500 /\ req[r].body = TextBody(DBUndefined)
                  ELSE req[r].status = 400

C1_Witness ==
    /\ ~configured
    /\ Done("r1", "add") /\ WellFormed("r1") /\ req["r1"].status = 500
    /\ Done("r2", "search") /\ ~WellFormed("r2") /\ req["r2"].status = 400

\* C2: a step of an add request that lacks one of the four required fields
\* never changes the events collection, never reaches insert_one, and ends
\* the request with 400.
C2_MissingFieldNoWrite ==
    [][\A r \in EReqs :
          (/\ req[r].route = "add"
           /\ ~(FourFields \subseteq DOMAIN req[r].params)
           /\ req'[r] # req[r])
             => /\ events' = events
                /\ req'[r].pc \in {"done", "idle"}
                /\ req'[r].pc = "done" => req'[r].status = 400 /\ req'[r].calls = <<>>]_vars

C2_Witness ==
    /\ Done("r1", "add")
    /\ "author_id" \notin DOMAIN req["r1"].params
    /\ req["r1"].status = 400
    /\ Len(events) = MaxEvents

\* C3: a list-all request that started after adds had returned 201 answers
\* 200 with an envelope that holds each of those events, under its
\* submitted name and with a created_at that is not null.
C3_AckedEventsListed ==
    \A r \in EReqs :
        (Done(r, "get_all") /\ req[r].seen # {})
            => /\ req[r].status = 200
               /\ \A a \in req[r].seen :
                     \E i \in 1 .. Len(req[r].body.events) :
                        /\ req[r].body.events[i]._id = [oid |-> a.id]
                        /\ req[r].body.events[i].name = a.name
                        /\ req[r].body.events[i].created_at # Null

C3_Witness ==
    /\ Done("r1", "get_all")
    /\ Cardinality(req["r1"].seen) = 2
    /\ req["r2"].route = "add" /\ req["r2"].pc = "done" /\ req["r2"].status = 201

\* C4: in every 200 response of list-all, search and get-one the envelope's
\* num_events is the length of its events.
C4_CountIsLength ==
    \A r \in EReqs :
        (req[r].pc = "done" /\ req[r].status = 200)
            => /\ req[r].route \in {"get_all", "search", "get_one"}
               /\ req[r].body.num_events = Len(req[r].body.events)

C4_Witness ==
    /\ Done("r1", "get_one") /\ req["r1"].status = 200
    /\ Len(req["r1"].body.events) = 0
    /\ Done("r2", "get_all") /\ req["r2"].status = 200
    /\ Len(req["r2"].body.events) = 2

\* C5: on a users collection that does not change, the authorization
\* decision is false when no record has the username and otherwise the
\* conjunction of is_organizer over all records with that username.
C5_AuthorizationIsConjunction ==
    (ureq.pc = "done" /\ ureq.route = "authorization" /\ "user_id" \in DOMAIN ureq.params)
        => ureq.body.edit_access =
              (/\ \E i \in 1 .. Len(users) : users[i].username = ureq.params.user_id
               /\ \A i \in 1 .. Len(users) :
                     users[i].username = ureq.params.user_id => users[i].is_organizer)

C5_Witness ==
    /\ ureq.pc = "done" /\ ureq.route = "authorization"
    /\ "user_id" \in DOMAIN ureq.params
    /\ Len(users) = 2
    /\ users[1].username = ureq.params.user_id /\ users[1].is_organizer
    /\ users[2].username = ureq.params.user_id /\ ~users[2].is_organizer
    /\ ureq.body.edit_access = FALSE

\* C6: the created_at an add request builds is the server's clock at that
\* step, whatever the form holds, and the document it inserts carries that
\* created_at and exactly the submitted name, description, author and
\* event_time.
C6_ServerTimestamp ==
    [][\A r \in EReqs :
          /\ (req[r].pc = "handler" /\ req'[r].pc = "insert")
                => req'[r].info.created_at = IsoFormat(clock)
          /\ (req[r].pc = "insert" /\ req'[r].status = 201)
                => /\ Len(events') = Len(events) + 1
                   /\ LET d == events'[Len(events')]
                      IN /\ d.created_at = req[r].info.created_at
                         /\ d.name = req[r].params.event_name
                         /\ d.description = req[r].params.description
                         /\ d.author = req[r].params.author_id
                         /\ d.event_time = req[r].params.event_time]_vars

C6_Witness ==
    /\ Done("r1", "add") /\ req["r1"].status = 201
    /\ "created_at" \in DOMAIN req["r1"].params
    /\ \E i \in 1 .. Len(events) :
          /\ events[i].name = req["r1"].params.event_name
          /\ events[i].created_at = 1
          /\ events[i].created_at # req["r1"].params.created_at

\* C7: an authorization request without user_id is answered 200 with an
\* error object and no edit_access, and makes no store call; with user_id
\* it is answered 200 with a boolean edit_access.
C7_AuthorizationResponse ==
    (ureq.route = "authorization") =>
        IF "user_id" \notin DOMAIN ureq.params
        THEN /\ ureq.calls = <<>>
             /\ ureq.pc \in {"handler", "done"}
             /\ ureq.pc = "done" =>
                   /\ ureq.status = 200
                   /\ DOMAIN ureq.body = {"kind", "error"}
        ELSE ureq.pc = "done" =>
                   /\ ureq.status = 200
                   /\ DOMAIN ureq.body = {"kind", "edit_access"}
                   /\ ureq.body.edit_access \in BOOLEAN

C7_Witness ==
    /\ ureq.pc = "done" /\ ureq.route = "authorization"
    /\ "user_id" \notin DOMAIN ureq.params
    /\ "error" \in DOMAIN ureq.body
    /\ users # <<>>

\* the calls a search request has made at each point of its handler
C8_SearchOrder ==
    \A r \in EReqs :
        req[r].route = "search" =>
            IF "name" \notin DOMAIN req[r].params
            THEN /\ req[r].calls = <<>>
                 /\ req[r].pc \in {"handler", "done"}
                 /\ req[r].pc = "done" => req[r].status = 400
            ELSE configured =>
                 /\ req[r].pc = "handler" => req[r].calls = <<>>
                 /\ req[r].pc = "find" =>
                       req[r].calls = <<"create_index">> /\ TextIndex \in indexes
                 /\ req[r].pc = "done" =>
                       req[r].calls = <<"create_index", "find">> /\ req[r].status = 200

\* C8: a search with a name on a configured store calls create_index and
\* then find, on every call, and is answered 200 with the documents the
\* text search matches at that moment, however often the index had been
\* ensured before; ensuring an index that exists changes nothing; a search
\* without a name is answered 400 and makes neither call.
C8_IndexEnsuredBeforeSearch ==
    /\ []C8_SearchOrder
    /\ [][/\ TextIndex \in indexes => indexes' = indexes
          /\ \A r \in EReqs :
                (req[r].route = "search" /\ req[r].pc = "find" /\ req'[r].pc = "done")
                   => /\ req'[r].body.num_events =
                            Cardinality({i \in 1 .. Len(events) :
                                Terms(events[i].name) \cap Terms(req[r].params.name) # {}})
                      /\ \A i \in 1 .. Len(req'[r].body.events) :
                            Terms(req'[r].body.events[i].name)
                                \cap Terms(req[r].params.name) # {}]_vars

C8_Witness ==
    /\ Done("r1", "search") /\ req["r1"].status = 200
    /\ Done("r2", "search") /\ req["r2"].status = 200
    /\ req["r1"].body.num_events = 2
    /\ req["r2"].body.num_events = 1

\* C9: a step changes the documents of a collection only when it is the
\* insert_one of an add request answered 201, and then it leaves the users
\* collection alone and appends exactly one document to the events
\* collection, the documents before it unchanged.
C9_OnlyAddWrites ==
    [][(events' # events \/ users' # users)
          => /\ users' = users
             /\ \E r \in EReqs :
                   /\ req[r].route = "add" /\ req[r].pc = "insert"
                   /\ req'[r].pc = "done" /\ req'[r].status = 201
             /\ Len(events') = Len(events) + 1
             /\ SubSeq(events', 1, Len(events)) = events]_vars

C9_Witness ==
    /\ Len(events) = 2 /\ events[1] = LegacyDoc
    /\ Done("r1", "add") /\ req["r1"].status = 201
    /\ ureq.pc = "done" /\ ureq.route = "authorization"
    /\ ureq.calls = <<"count_documents", "find">>

\* C10: an authorization answered true rests on at least one record with
\* the username, an organizer, in the result of the find.
C10_TrueRestsOnRecord ==
    (ureq.pc = "done" /\ ureq.route = "authorization"
        /\ "user_id" \in DOMAIN ureq.params /\ ureq.body.edit_access)
        => \E i \in 1 .. Len(ureq.cursor) :
              /\ ureq.cursor[i].username = ureq.params.user_id
              /\ ureq.cursor[i].is_organizer

====
